---- MODULE Spec2Model ----
(***************************************************************************)
(* Model of the transactions processor: the payment engine                 *)
(* (src/payment_engine/mod.rs, account.rs, transaction.rs) driven by the   *)
(* ingestion loop of src/main.rs.                                          *)
(*                                                                         *)
(* Decimal amounts are modelled as integers (a count of the smallest unit  *)
(* in use); Option<T> is modelled as a sequence of length 0 or 1; a        *)
(* HashMap is a function whose DOMAIN is the set of keys present.          *)
(***************************************************************************)
EXTENDS Integers, FiniteSets, Sequences, TLC

\* ---------------------------------------------------------------- bounds
MaxClient == 2
MaxTxId == 2
MaxAmount == 2
MaxRecords == 4

ClientIds == 1..MaxClient
TxIds == 1..MaxTxId
Amounts == (-1)..MaxAmount
OptAmounts == {<<>>} \cup {<<a>> : a \in Amounts}
\* the amount column of a dispute, resolve or chargeback record: empty or filled
IgnoredAmounts == {<<>>, <<MaxAmount>>}

VARIABLES
    clients,        \* PaymentEngine.clients: HashMap<u16, AccountStatus>
    transactions,   \* PaymentEngine.transactions: HashMap<u32, Transaction>
    pc,             \* position of main: "run", "failed" (returned Err), "done"
    processed,      \* number of records taken from the reader so far
    output,         \* what main serialized to stdout: <<>> or <<set of accounts>>
    lastTx,         \* the Transaction handed to the last process_transaction call
    result,         \* what that call returned: "Ok" or the error's name
    calls,          \* number of process_transaction calls main has made
    solo,           \* per client: the engine fed only that client's transactions
    chargedBack,    \* ids of the stored entries that were charged back
    applied,        \* the Deposit and Withdrawal transactions that returned Ok
    idUses,         \* per id: the Deposit and Withdrawal transactions carrying it
    netTotal,       \* per client: deposits - withdrawals - chargebacks applied
    lastRecord      \* the record main took from the reader last

\* history of the run, recorded by TrackedSpec only
hist == <<solo, chargedBack, applied, idUses, netTotal, lastRecord>>

vars == <<clients, transactions, pc, processed, output, lastTx, result, calls, hist>>

\* ------------------------------------------------------------ account.rs
\* A method taking `&mut self` is an operator from the account to the account
\* it leaves behind (acct) and, where it returns a Result, the error (err).
AccountStatus_new(client_id) ==
    [client |-> client_id, available |-> 0, held |-> 0, total |-> 0, locked |-> FALSE]

\* slip: the deposit is credited to available only
deposit_available_only(self, amount) ==
    IF self.locked
    THEN [acct |-> self, err |-> "AccountLocked"]
    ELSE [acct |-> [self EXCEPT !.available = @ + amount], err |-> "Ok"]

deposit(self, amount) ==
    IF self.locked
    THEN [acct |-> self, err |-> "AccountLocked"]
    ELSE [acct |-> [self EXCEPT !.available = @ + amount, !.total = @ + amount],
          err |-> "Ok"]

\* slip: the debit is applied before the funds check
withdraw_debits_first(self, amount) ==
    IF self.locked
    THEN [acct |-> self, err |-> "AccountLocked"]
    ELSE IF self.available - amount < 0
    THEN [acct |-> [self EXCEPT !.available = @ - amount, !.total = @ - amount],
          err |-> "InsufficientFunds"]
    ELSE [acct |-> [self EXCEPT !.available = @ - amount, !.total = @ - amount],
          err |-> "Ok"]

\* slip: `<=` for `<` in the funds check
withdraw_strict(self, amount) ==
    IF self.locked
    THEN [acct |-> self, err |-> "AccountLocked"]
    ELSE IF self.available <= amount
    THEN [acct |-> self, err |-> "InsufficientFunds"]
    ELSE [acct |-> [self EXCEPT !.available = @ - amount, !.total = @ - amount],
          err |-> "Ok"]

\* slip: the funds check comes before the lock check
withdraw_funds_first(self, amount) ==
    IF self.available < amount
    THEN [acct |-> self, err |-> "InsufficientFunds"]
    ELSE IF self.locked
    THEN [acct |-> self, err |-> "AccountLocked"]
    ELSE [acct |-> [self EXCEPT !.available = @ - amount, !.total = @ - amount],
          err |-> "Ok"]

withdraw(self, amount) ==
    IF self.locked
    THEN [acct |-> self, err |-> "AccountLocked"]
    ELSE IF self.available < amount
    THEN [acct |-> self, err |-> "InsufficientFunds"]
    ELSE [acct |-> [self EXCEPT !.available = @ - amount, !.total = @ - amount],
          err |-> "Ok"]

\* slip: holding funds is refused on a locked account, like deposit and withdraw
hold_funds_checks_lock(self, amount) ==
    IF self.locked
    THEN [acct |-> self, err |-> "AccountLocked"]
    ELSE [acct |-> [self EXCEPT !.available = @ - amount, !.held = @ + amount],
          err |-> "Ok"]

hold_funds(self, amount) ==
    [acct |-> [self EXCEPT !.available = @ - amount, !.held = @ + amount],
     err |-> "Ok"]

\* slip: held is not reduced by the released amount
release_funds_keeps_held(self, amount) ==
    [self EXCEPT !.available = @ + amount]

release_funds(self, amount) ==
    [self EXCEPT !.held = @ - amount, !.available = @ + amount]

\* slip: total is not reduced by the amount charged back
chargeback_keeps_total(self, amount) ==
    [self EXCEPT !.held = @ - amount, !.locked = TRUE]

chargeback(self, amount) ==
    [self EXCEPT !.held = @ - amount, !.total = @ - amount, !.locked = TRUE]

\* -------------------------------------------------------- transaction.rs
Deposit(amount) == [kind |-> "Deposit", amount |-> amount]
Withdrawal(amount) == [kind |-> "Withdrawal", amount |-> amount]
Dispute == [kind |-> "Dispute"]
Resolve == [kind |-> "Resolve"]
Chargeback == [kind |-> "Chargeback"]

Transaction_new(client, transaction_id, type) ==
    [client |-> client, id |-> transaction_id, is_disputed |-> FALSE, type |-> type]

\* ------------------------------------------------- payment_engine/mod.rs
\* slip: HashMap::insert of a new account on every call
entry_always_insert(map, client_id) ==
    [k \in DOMAIN map \cup {client_id} |->
        IF k = client_id THEN AccountStatus_new(client_id) ELSE map[k]]

\* HashMap::entry(k).or_insert_with(f)
entry_or_insert(map, client_id) ==
    IF client_id \in DOMAIN map
    THEN map
    ELSE [k \in DOMAIN map \cup {client_id} |->
            IF k = client_id THEN AccountStatus_new(client_id) ELSE map[k]]

\* HashMap::insert(k, v): adds the key or replaces the value stored under it
insert(map, key, value) ==
    [k \in DOMAIN map \cup {key} |-> IF k = key THEN value ELSE map[k]]

Ret(cl, txs, res) == [clients |-> cl, transactions |-> txs, result |-> res]

\* slip: the amount of a withdrawal is not negated
signed_amount_unsigned(original_transaction) ==
    CASE original_transaction.type.kind = "Deposit" ->
            <<original_transaction.type.amount>>
      [] original_transaction.type.kind = "Withdrawal" ->
            <<original_transaction.type.amount>>
      [] OTHER -> <<>>

\* the amount at stake of a stored entry, as <<amount>>, or <<>> for the `_` arm
signed_amount(original_transaction) ==
    CASE original_transaction.type.kind = "Deposit" ->
            <<original_transaction.type.amount>>
      [] original_transaction.type.kind = "Withdrawal" ->
            <<0 - original_transaction.type.amount>>
      [] OTHER -> <<>>

\* slip: the account is asked before the amount is validated
process_deposit_lock_first(cl, txs, transaction) ==
    LET amount == transaction.type.amount
        r == deposit(cl[transaction.client], amount)
    IN  IF cl[transaction.client].locked
        THEN Ret(cl, txs, "AccountLocked")
        ELSE IF amount < 0 THEN Ret(cl, txs, "InvalidAmount")
        ELSE Ret([cl EXCEPT ![transaction.client] = r.acct],
                 insert(txs, transaction.id, transaction), "Ok")

process_deposit(cl, txs, transaction) ==
    LET amount == transaction.type.amount
        r == deposit(cl[transaction.client], amount)
    IN  IF amount < 0 THEN Ret(cl, txs, "InvalidAmount")
        ELSE IF r.err # "Ok"
        THEN Ret([cl EXCEPT ![transaction.client] = r.acct], txs, r.err)
        ELSE Ret([cl EXCEPT ![transaction.client] = r.acct],
                 insert(txs, transaction.id, transaction), "Ok")

process_withdrawal(cl, txs, transaction) ==
    LET amount == transaction.type.amount
        r == withdraw(cl[transaction.client], amount)
    IN  IF amount < 0 THEN Ret(cl, txs, "InvalidAmount")
        ELSE IF r.err # "Ok"
        THEN Ret([cl EXCEPT ![transaction.client] = r.acct], txs, r.err)
        ELSE Ret([cl EXCEPT ![transaction.client] = r.acct],
                 insert(txs, transaction.id, transaction), "Ok")

\* slip: the Dispute itself is stored in the history, under the disputed id
dispute_arm_stores_dispute(cl, txs, transaction, amount) ==
    LET original_transaction == txs[transaction.id]
        r == hold_funds(cl[transaction.client], amount)
    IN  IF original_transaction.is_disputed
        THEN Ret(cl, txs, "TransactionAlreadyDisputed")
        ELSE Ret([cl EXCEPT ![transaction.client] = r.acct],
                 insert(txs, transaction.id,
                        [transaction EXCEPT !.is_disputed = TRUE]), r.err)

dispute_arm(cl, txs, transaction, amount) ==
    LET original_transaction == txs[transaction.id]
        r == hold_funds(cl[transaction.client], amount)
    IN  IF original_transaction.is_disputed
        THEN Ret(cl, txs, "TransactionAlreadyDisputed")
        ELSE Ret([cl EXCEPT ![transaction.client] = r.acct],
                 [txs EXCEPT ![transaction.id].is_disputed = TRUE], r.err)

\* slip: the is_disputed check of the Resolve arm is missing
resolve_arm_unchecked(cl, txs, transaction, amount) ==
    Ret([cl EXCEPT ![transaction.client] =
                release_funds(cl[transaction.client], amount)],
        [txs EXCEPT ![transaction.id].is_disputed = FALSE], "Ok")

\* slip: the entry stays disputed after the resolve
resolve_arm_keeps_flag(cl, txs, transaction, amount) ==
    LET original_transaction == txs[transaction.id]
    IN  IF ~original_transaction.is_disputed
        THEN Ret(cl, txs, "NotDisputed")
        ELSE Ret([cl EXCEPT ![transaction.client] =
                        release_funds(cl[transaction.client], amount)],
                 txs, "Ok")

resolve_arm(cl, txs, transaction, amount) ==
    LET original_transaction == txs[transaction.id]
    IN  IF ~original_transaction.is_disputed
        THEN Ret(cl, txs, "NotDisputed")
        ELSE Ret([cl EXCEPT ![transaction.client] =
                        release_funds(cl[transaction.client], amount)],
                 [txs EXCEPT ![transaction.id].is_disputed = FALSE], "Ok")

\* slip: the entry stays disputed after the chargeback
chargeback_arm_keeps_flag(cl, txs, transaction, amount) ==
    LET original_transaction == txs[transaction.id]
    IN  IF ~original_transaction.is_disputed
        THEN Ret(cl, txs, "NotDisputed")
        ELSE Ret([cl EXCEPT ![transaction.client] =
                        chargeback(cl[transaction.client], amount)],
                 txs, "Ok")

chargeback_arm(cl, txs, transaction, amount) ==
    LET original_transaction == txs[transaction.id]
    IN  IF ~original_transaction.is_disputed
        THEN Ret(cl, txs, "NotDisputed")
        ELSE Ret([cl EXCEPT ![transaction.client] =
                        chargeback(cl[transaction.client], amount)],
                 [txs EXCEPT ![transaction.id].is_disputed = FALSE], "Ok")

\* slip: the owner of the entry is not compared with the transaction's client
find_original_any_client(txs, transaction) ==
    IF transaction.id \notin DOMAIN txs
    THEN "TransactionNotFound"
    ELSE IF signed_amount(txs[transaction.id]) = <<>>
    THEN "InvalidTransactionType"
    ELSE "Ok"

\* slip: an unknown id is reported with the error of the not-disputed case
find_original_not_disputed(txs, transaction) ==
    IF transaction.id \notin DOMAIN txs
    THEN "NotDisputed"
    ELSE IF txs[transaction.id].client # transaction.client
    THEN "DisputeForDifferentClient"
    ELSE IF signed_amount(txs[transaction.id]) = <<>>
    THEN "InvalidTransactionType"
    ELSE "Ok"

\* the early returns before the inner match: history lookup, owner, entry kind
find_original(txs, transaction) ==
    IF transaction.id \notin DOMAIN txs
    THEN "TransactionNotFound"
    ELSE IF txs[transaction.id].client # transaction.client
    THEN "DisputeForDifferentClient"
    ELSE IF signed_amount(txs[transaction.id]) = <<>>
    THEN "InvalidTransactionType"
    ELSE "Ok"

process_dispute_class(cl, txs, transaction) ==
    IF find_original(txs, transaction) # "Ok"
    THEN Ret(cl, txs, find_original(txs, transaction))
    ELSE LET amount == signed_amount(txs[transaction.id])[1]
         IN  CASE transaction.type.kind = "Dispute" ->
                    dispute_arm(cl, txs, transaction, amount)
               [] transaction.type.kind = "Resolve" ->
                    resolve_arm(cl, txs, transaction, amount)
               [] transaction.type.kind = "Chargeback" ->
                    chargeback_arm(cl, txs, transaction, amount)
               [] OTHER -> Ret(cl, txs, "unreachable")

\* slip: the account is created only when the transaction is accepted
process_transaction_no_account_on_error(cl0, txs, transaction) ==
    LET cl == entry_or_insert(cl0, transaction.client)
        r == CASE transaction.type.kind = "Deposit" ->
                    process_deposit(cl, txs, transaction)
               [] transaction.type.kind = "Withdrawal" ->
                    process_withdrawal(cl, txs, transaction)
               [] OTHER ->
                    process_dispute_class(cl, txs, transaction)
    IN  IF r.result = "Ok" THEN r ELSE Ret(cl0, r.transactions, r.result)

process_transaction(cl0, txs, transaction) ==
    LET cl == entry_or_insert(cl0, transaction.client)
    IN  CASE transaction.type.kind = "Deposit" ->
                process_deposit(cl, txs, transaction)
          [] transaction.type.kind = "Withdrawal" ->
                process_withdrawal(cl, txs, transaction)
          [] OTHER ->
                process_dispute_class(cl, txs, transaction)

get_accounts_statuses(cl) == {cl[c] : c \in DOMAIN cl}

\* ---------------------------------------------------------------- main.rs
CsvTransaction(type, client, tx, amount) ==
    [transaction_type |-> type, client |-> client, tx |-> tx, amount |-> amount]

\* slip: `unwrap_or_default()` for `ok_or_else(..)?` - a missing amount is zero
try_from_default_amount(value) ==
    LET amount == IF value.amount = <<>> THEN 0 ELSE value.amount[1]
    IN  CASE value.transaction_type = "deposit" ->
                <<Transaction_new(value.client, value.tx, Deposit(amount))>>
          [] value.transaction_type = "withdrawal" ->
                <<Transaction_new(value.client, value.tx, Withdrawal(amount))>>
          [] value.transaction_type = "dispute" ->
                <<Transaction_new(value.client, value.tx, Dispute)>>
          [] value.transaction_type = "resolve" ->
                <<Transaction_new(value.client, value.tx, Resolve)>>
          [] value.transaction_type = "chargeback" ->
                <<Transaction_new(value.client, value.tx, Chargeback)>>

\* impl TryFrom<CsvTransaction> for Transaction: <<transaction>>, or <<>> for Err
try_from(value) ==
    CASE value.transaction_type = "deposit" ->
            IF value.amount = <<>> THEN <<>>
            ELSE <<Transaction_new(value.client, value.tx, Deposit(value.amount[1]))>>
      [] value.transaction_type = "withdrawal" ->
            IF value.amount = <<>> THEN <<>>
            ELSE <<Transaction_new(value.client, value.tx, Withdrawal(value.amount[1]))>>
      [] value.transaction_type = "dispute" ->
            <<Transaction_new(value.client, value.tx, Dispute)>>
      [] value.transaction_type = "resolve" ->
            <<Transaction_new(value.client, value.tx, Resolve)>>
      [] value.transaction_type = "chargeback" ->
            <<Transaction_new(value.client, value.tx, Chargeback)>>

NoTransaction == [client |-> 0, id |-> 0, is_disputed |-> FALSE, type |-> [kind |-> "None"]]
NoRecord == CsvTransaction("none", 0, 0, <<>>)

Init ==
    /\ clients = <<>>
    /\ transactions = <<>>
    /\ pc = "run"
    /\ processed = 0
    /\ output = <<>>
    /\ lastTx = NoTransaction
    /\ result = "None"
    /\ calls = 0
    /\ solo = [c \in ClientIds |-> [clients |-> <<>>, transactions |-> <<>>]]
    /\ chargedBack = {}
    /\ applied = {}
    /\ idUses = [t \in TxIds |-> 0]
    /\ netTotal = [c \in ClientIds |-> 0]
    /\ lastRecord = NoRecord

\* slip: `process_transaction(transaction)?` - an engine error ends main
Iteration_stops_on_error(record) ==
    /\ pc = "run"
    /\ processed' = processed + 1
    /\ LET decoded == try_from(record)
       IN  IF decoded = <<>>
           THEN /\ pc' = "failed"
                /\ UNCHANGED <<clients, transactions, output, lastTx, result, calls>>
           ELSE LET r == process_transaction(clients, transactions, decoded[1])
                IN  /\ clients' = r.clients
                    /\ transactions' = r.transactions
                    /\ result' = r.result
                    /\ lastTx' = decoded[1]
                    /\ calls' = calls + 1
                    /\ pc' = IF r.result = "Ok" THEN "run" ELSE "failed"
                    /\ UNCHANGED output

\* one iteration of the `for transaction in records` loop of main
Iteration(record) ==
    /\ pc = "run"
    /\ processed' = processed + 1
    /\ LET decoded == try_from(record)
       IN  IF decoded = <<>>
           THEN /\ pc' = "failed"
                /\ UNCHANGED <<clients, transactions, output, lastTx, result, calls>>
           ELSE LET r == process_transaction(clients, transactions, decoded[1])
                IN  /\ clients' = r.clients
                    /\ transactions' = r.transactions
                    /\ result' = r.result
                    /\ lastTx' = decoded[1]
                    /\ calls' = calls + 1
                    /\ UNCHANGED <<pc, output>>

\* the iteration, for an input of at most MaxRecords records
Ingest(record) ==
    /\ processed < MaxRecords
    /\ Iteration(record)

\* the history variables after the same iteration: the transaction is also fed
\* to the engine that sees only its client's transactions, and an Ok result is
\* recorded (a new entry stored under an id is an entry not yet charged back);
\* every Deposit and Withdrawal handed to the engine counts as a use of its id,
\* and an Ok Deposit, Withdrawal or Chargeback moves the client's net total by
\* the amount, or by the signed amount of the entry charged back
Track(record) ==
    LET decoded == try_from(record)
    IN  /\ lastRecord' = record
        /\ IF decoded = <<>>
           THEN UNCHANGED <<solo, chargedBack, applied, idUses, netTotal>>
           ELSE LET tx == decoded[1]
                    kind == tx.type.kind
                    s == process_transaction(solo[tx.client].clients,
                                             solo[tx.client].transactions, tx)
                    stored == result' = "Ok" /\ kind \in {"Deposit", "Withdrawal"}
                    entry == transactions[tx.id]
                    moved ==
                        CASE result' # "Ok" -> 0
                          [] kind = "Deposit" -> tx.type.amount
                          [] kind = "Withdrawal" -> 0 - tx.type.amount
                          [] kind = "Chargeback" ->
                                IF entry.type.kind = "Deposit"
                                THEN 0 - entry.type.amount
                                ELSE entry.type.amount
                          [] OTHER -> 0
                IN  /\ solo' = [solo EXCEPT ![tx.client] =
                                   [clients |-> s.clients, transactions |-> s.transactions]]
                    /\ chargedBack' =
                           IF result' = "Ok" /\ kind = "Chargeback"
                           THEN chargedBack \cup {tx.id}
                           ELSE IF stored THEN chargedBack \ {tx.id} ELSE chargedBack
                    /\ applied' = IF stored THEN applied \cup {tx} ELSE applied
                    /\ idUses' = IF kind \in {"Deposit", "Withdrawal"}
                                 THEN [idUses EXCEPT ![tx.id] = @ + 1]
                                 ELSE idUses
                    /\ netTotal' = [netTotal EXCEPT ![tx.client] = @ + moved]

DepositRecord ==
    \E c \in ClientIds, t \in TxIds, a \in OptAmounts :
        Ingest(CsvTransaction("deposit", c, t, a)) /\ UNCHANGED hist

WithdrawalRecord ==
    \E c \in ClientIds, t \in TxIds, a \in OptAmounts :
        Ingest(CsvTransaction("withdrawal", c, t, a)) /\ UNCHANGED hist

DisputeRecord ==
    \E c \in ClientIds, t \in TxIds, a \in IgnoredAmounts :
        Ingest(CsvTransaction("dispute", c, t, a)) /\ UNCHANGED hist

ResolveRecord ==
    \E c \in ClientIds, t \in TxIds, a \in IgnoredAmounts :
        Ingest(CsvTransaction("resolve", c, t, a)) /\ UNCHANGED hist

ChargebackRecord ==
    \E c \in ClientIds, t \in TxIds, a \in IgnoredAmounts :
        Ingest(CsvTransaction("chargeback", c, t, a)) /\ UNCHANGED hist

\* the reader is exhausted: main writes the snapshot and returns Ok
EndOfInput ==
    /\ pc = "run"
    /\ pc' = "done"
    /\ output' = <<get_accounts_statuses(clients)>>
    /\ UNCHANGED <<clients, transactions, processed, lastTx, result, calls, hist>>

Next ==
    \/ DepositRecord
    \/ WithdrawalRecord
    \/ DisputeRecord
    \/ ResolveRecord
    \/ ChargebackRecord
    \/ EndOfInput

Spec == Init /\ [][Next]_vars

\* the same program with the history variables recorded
TrackedDepositRecord ==
    \E c \in ClientIds, t \in TxIds, a \in OptAmounts :
        Ingest(CsvTransaction("deposit", c, t, a))
            /\ Track(CsvTransaction("deposit", c, t, a))

TrackedWithdrawalRecord ==
    \E c \in ClientIds, t \in TxIds, a \in OptAmounts :
        Ingest(CsvTransaction("withdrawal", c, t, a))
            /\ Track(CsvTransaction("withdrawal", c, t, a))

TrackedDisputeRecord ==
    \E c \in ClientIds, t \in TxIds, a \in IgnoredAmounts :
        Ingest(CsvTransaction("dispute", c, t, a))
            /\ Track(CsvTransaction("dispute", c, t, a))

TrackedResolveRecord ==
    \E c \in ClientIds, t \in TxIds, a \in IgnoredAmounts :
        Ingest(CsvTransaction("resolve", c, t, a))
            /\ Track(CsvTransaction("resolve", c, t, a))

TrackedChargebackRecord ==
    \E c \in ClientIds, t \in TxIds, a \in IgnoredAmounts :
        Ingest(CsvTransaction("chargeback", c, t, a))
            /\ Track(CsvTransaction("chargeback", c, t, a))

TrackedNext ==
    \/ TrackedDepositRecord
    \/ TrackedWithdrawalRecord
    \/ TrackedDisputeRecord
    \/ TrackedResolveRecord
    \/ TrackedChargebackRecord
    \/ EndOfInput

TrackedSpec == Init /\ [][TrackedNext]_vars

\* the same program, seen from the point where a deposit of client 1 has been
\* disputed and charged back: the account is locked, the entry is stored
LockedPrefix ==
    << Transaction_new(1, 1, Deposit(MaxAmount)),
       Transaction_new(1, 1, Dispute),
       Transaction_new(1, 1, Chargeback) >>

RECURSIVE process_all(_, _)
process_all(engine, seq) ==
    IF seq = <<>>
    THEN engine
    ELSE process_all(process_transaction(engine.clients, engine.transactions,
                                         Head(seq)),
                     Tail(seq))

LockedInit ==
    LET engine == process_all(Ret(<<>>, <<>>, "None"), LockedPrefix)
    IN  /\ clients = engine.clients
        /\ transactions = engine.transactions
        /\ pc = "run"
        /\ processed = Len(LockedPrefix)
        /\ output = <<>>
        /\ lastTx = LockedPrefix[Len(LockedPrefix)]
        /\ result = engine.result
        /\ calls = Len(LockedPrefix)
        /\ solo = [c \in ClientIds |-> [clients |-> <<>>, transactions |-> <<>>]]
        /\ chargedBack = {}
        /\ applied = {}
        /\ idUses = [t \in TxIds |-> 0]
        /\ netTotal = [c \in ClientIds |-> 0]
        /\ lastRecord = NoRecord

\* the records that follow the prefix: one fewer than MaxRecords
LockedIngest(record) ==
    /\ processed < Len(LockedPrefix) + MaxRecords - 1
    /\ Iteration(record)
    /\ UNCHANGED hist

LockedMoneyRecord ==
    \E k \in {"deposit", "withdrawal"}, c \in ClientIds, t \in TxIds, a \in OptAmounts :
        LockedIngest(CsvTransaction(k, c, t, a))

LockedDisputeClassRecord ==
    \E k \in {"dispute", "resolve", "chargeback"}, c \in ClientIds, t \in TxIds,
       a \in IgnoredAmounts :
        LockedIngest(CsvTransaction(k, c, t, a))

LockedNext ==
    \/ LockedMoneyRecord
    \/ LockedDisputeClassRecord
    \/ EndOfInput

LockedSpec == LockedInit /\ [][LockedNext]_vars

\* ------------------------------------------------------ claim vocabulary
\* a step of main that called process_transaction (pc stays "run" only then)
Called == pc' = "run"
CalledWith(kind) == Called /\ lastTx'.type.kind = kind

\* the account the call works on: the stored one, or the one it creates
AccountBefore(c) ==
    IF c \in DOMAIN clients
    THEN clients[c]
    ELSE [client |-> c, available |-> 0, held |-> 0, total |-> 0, locked |-> FALSE]

\* +amount for a Deposit entry, -amount for a Withdrawal entry
Signed(entry) ==
    IF entry.type.kind = "Deposit" THEN entry.type.amount ELSE 0 - entry.type.amount

\* the history entry named by the last transaction, owned by its client
OwnEntry(txs, tx) == tx.id \in DOMAIN txs /\ txs[tx.id].client = tx.client

\* ------------------------------------------------------------------- C1
\* C1: for every account, after every call of process_transaction, whether
\* it returned Ok or an error, total = available + held.
C1_TotalIsAvailablePlusHeld ==
    \A c \in DOMAIN clients :
        clients[c].total = clients[c].available + clients[c].held

\* a rejected transaction on an account with funds both available and held
C1_Witness ==
    /\ result \notin {"Ok", "None"}
    /\ lastTx.client \in DOMAIN clients
    /\ clients[lastTx.client].held # 0
    /\ clients[lastTx.client].available # 0

\* ------------------------------------------------------------------- C2
\* C2: when process_transaction returns an error, every account that existed
\* before the call is unchanged (available, held, total, locked) and the
\* history is unchanged (same entries, same client, kind, amount, flag).
C2_RejectionChangesNothing ==
    [][(Called /\ result' # "Ok") =>
            /\ \A c \in DOMAIN clients :
                    /\ c \in DOMAIN clients'
                    /\ clients'[c].available = clients[c].available
                    /\ clients'[c].held = clients[c].held
                    /\ clients'[c].total = clients[c].total
                    /\ clients'[c].locked = clients[c].locked
            /\ DOMAIN transactions' = DOMAIN transactions
            /\ \A t \in DOMAIN transactions : transactions'[t] = transactions[t]
      ]_vars

\* a Dispute of another client's entry was rejected while that entry's
\* owner holds funds
C2_Witness ==
    /\ lastTx.type.kind = "Dispute"
    /\ result = "DisputeForDifferentClient"
    /\ clients[transactions[lastTx.id].client].available > 0

\* ------------------------------------------------------------------- C3
\* C3: locked only ever changes from false to true: an account that is
\* locked stays locked through every later transaction.
C3_LockedIsALatch ==
    [][\A c \in DOMAIN clients :
            clients[c].locked => (c \in DOMAIN clients' /\ clients'[c].locked)
      ]_vars

\* a transaction was applied successfully to an account already locked
C3_Witness ==
    /\ result = "Ok"
    /\ lastTx.type.kind = "Dispute"
    /\ clients[lastTx.client].locked

\* ------------------------------------------------------------------- C4
\* C4: on an unlocked account a Deposit of a >= 0 succeeds with
\* available += a, total += a; a Withdrawal of a >= 0 succeeds iff
\* available >= a, with available -= a, total -= a, and otherwise fails with
\* InsufficientFunds leaving available and total unchanged; held and locked
\* are unchanged in both cases.
C4_DepositStep ==
    LET c == lastTx'.client
        a == lastTx'.type.amount
        before == AccountBefore(c)
    IN  (CalledWith("Deposit") /\ a >= 0 /\ ~before.locked) =>
            /\ result' = "Ok"
            /\ clients'[c].available = before.available + a
            /\ clients'[c].total = before.total + a
            /\ clients'[c].held = before.held
            /\ clients'[c].locked = before.locked

C4_WithdrawalStep ==
    LET c == lastTx'.client
        a == lastTx'.type.amount
        before == AccountBefore(c)
    IN  (CalledWith("Withdrawal") /\ a >= 0 /\ ~before.locked) =>
            /\ (result' = "Ok") <=> (before.available >= a)
            /\ result' \in {"Ok", "InsufficientFunds"}
            /\ clients'[c].available =
                    IF result' = "Ok" THEN before.available - a ELSE before.available
            /\ clients'[c].total =
                    IF result' = "Ok" THEN before.total - a ELSE before.total
            /\ clients'[c].held = before.held
            /\ clients'[c].locked = before.locked

C4_DepositAndWithdrawal == [][C4_DepositStep /\ C4_WithdrawalStep]_vars

\* a withdrawal of exactly the available funds succeeded and emptied them
C4_Witness ==
    /\ lastTx.type.kind = "Withdrawal"
    /\ result = "Ok"
    /\ lastTx.type.amount > 0
    /\ clients[lastTx.client].available = 0

\* ------------------------------------------------------------------- C5
\* C5: a successful Dispute of a stored entry with signed amount s moves s
\* from available to held (available -= s, held += s), leaves total and
\* locked unchanged and marks the entry disputed; for a Withdrawal entry
\* held therefore does not rise and available does not fall.
C5_DisputeStep ==
    LET c == lastTx'.client
        t == lastTx'.id
    IN  (CalledWith("Dispute") /\ result' = "Ok") =>
            /\ OwnEntry(transactions, lastTx')
            /\ clients'[c].available = clients[c].available - Signed(transactions[t])
            /\ clients'[c].held = clients[c].held + Signed(transactions[t])
            /\ clients'[c].total = clients[c].total
            /\ clients'[c].locked = clients[c].locked
            /\ transactions'[t].is_disputed
            /\ transactions[t].type.kind = "Withdrawal" =>
                    /\ clients'[c].held <= clients[c].held
                    /\ clients'[c].available >= clients[c].available

C5_DisputeHoldsSignedAmount == [][C5_DisputeStep]_vars

\* a withdrawal was disputed: held is negative and available is back up
C5_Witness ==
    /\ lastTx.type.kind = "Dispute"
    /\ result = "Ok"
    /\ transactions[lastTx.id].type.kind = "Withdrawal"
    /\ clients[lastTx.client].held < 0
    /\ clients[lastTx.client].available > clients[lastTx.client].total

\* a deposit was disputed after its funds were spent: available is negative
C5_NegativeAvailable ==
    /\ lastTx.type.kind = "Dispute"
    /\ result = "Ok"
    /\ transactions[lastTx.id].type.kind = "Deposit"
    /\ clients[lastTx.client].available < 0

\* ------------------------------------------------------------------- C6
\* C6: a successful Chargeback of a disputed entry with signed amount s does
\* held -= s, total -= s, leaves available unchanged, locks the owning
\* account and clears the entry's is_disputed flag.
C6_ChargebackStep ==
    LET c == lastTx'.client
        t == lastTx'.id
    IN  (CalledWith("Chargeback") /\ result' = "Ok") =>
            /\ OwnEntry(transactions, lastTx')
            /\ transactions[t].is_disputed
            /\ clients'[c].held = clients[c].held - Signed(transactions[t])
            /\ clients'[c].total = clients[c].total - Signed(transactions[t])
            /\ clients'[c].available = clients[c].available
            /\ clients'[c].locked
            /\ ~transactions'[t].is_disputed

C6_ChargebackRemovesHeld == [][C6_ChargebackStep]_vars

\* a disputed entry of non-zero amount was charged back
C6_Witness ==
    /\ lastTx.type.kind = "Chargeback"
    /\ result = "Ok"
    /\ transactions[lastTx.id].type.amount # 0
    /\ clients[lastTx.client].locked

\* ------------------------------------------------------------------- C7
\* C7: a successful Dispute of an entry immediately followed by a Resolve of
\* the same entry returns the account and the entry's flag to their values
\* before the Dispute, and the entry can then be disputed again.
C7_ResolveUndoesDispute ==
    \A c \in ClientIds, t \in TxIds :
        LET d == process_transaction(clients, transactions,
                                     Transaction_new(c, t, Dispute))
            r == process_transaction(d.clients, d.transactions,
                                     Transaction_new(c, t, Resolve))
            again == process_transaction(r.clients, r.transactions,
                                         Transaction_new(c, t, Dispute))
        IN  d.result = "Ok" =>
                /\ r.result = "Ok"
                /\ r.clients[c].available = clients[c].available
                /\ r.clients[c].held = clients[c].held
                /\ r.clients[c].total = clients[c].total
                /\ r.clients[c].locked = clients[c].locked
                /\ r.transactions[t].is_disputed = transactions[t].is_disputed
                /\ r.clients = clients
                /\ r.transactions = transactions
                /\ again.result = "Ok"

\* a Resolve has just released a non-zero amount that a Dispute had held
C7_Witness ==
    /\ lastTx.type.kind = "Resolve"
    /\ result = "Ok"
    /\ transactions[lastTx.id].type.amount # 0
    /\ ~transactions[lastTx.id].is_disputed
    /\ clients[lastTx.client].held = 0

\* ------------------------------------------------------------------- C8
\* C8: a Dispute succeeds iff the named entry exists, belongs to the client
\* of the Dispute and is not disputed; it fails with TransactionNotFound for
\* an unknown id, DisputeForDifferentClient for another client's entry and
\* TransactionAlreadyDisputed for an entry already disputed.
C8_DisputeStep ==
    LET t == lastTx'.id
    IN  CalledWith("Dispute") =>
            /\ (result' = "Ok") <=>
                    /\ OwnEntry(transactions, lastTx')
                    /\ ~transactions[t].is_disputed
            /\ t \notin DOMAIN transactions => result' = "TransactionNotFound"
            /\ (t \in DOMAIN transactions /\ ~OwnEntry(transactions, lastTx'))
                    => result' = "DisputeForDifferentClient"
            /\ (OwnEntry(transactions, lastTx') /\ transactions[t].is_disputed)
                    => result' = "TransactionAlreadyDisputed"

C8_DisputeOutcome == [][C8_DisputeStep]_vars

\* a second Dispute of an entry under dispute was rejected
C8_Witness ==
    /\ lastTx.type.kind = "Dispute"
    /\ result = "TransactionAlreadyDisputed"
    /\ transactions[lastTx.id].is_disputed

\* ------------------------------------------------------------------- C9
\* C9: Resolve and Chargeback succeed only on an entry that is disputed and
\* owned by the same client; on an existing entry of that client that is not
\* disputed they fail with NotDisputed and change no account and no entry.
C9_ResolveChargebackStep ==
    LET t == lastTx'.id
    IN  (CalledWith("Resolve") \/ CalledWith("Chargeback")) =>
            /\ result' = "Ok" =>
                    /\ OwnEntry(transactions, lastTx')
                    /\ transactions[t].is_disputed
            /\ (OwnEntry(transactions, lastTx') /\ ~transactions[t].is_disputed) =>
                    /\ result' = "NotDisputed"
                    /\ clients' = clients
                    /\ transactions' = transactions

C9_OnlyDisputedEntries == [][C9_ResolveChargebackStep]_vars

\* a Chargeback of an entry already charged back was rejected
C9_Witness ==
    /\ lastTx.type.kind = "Chargeback"
    /\ result = "NotDisputed"
    /\ clients[lastTx.client].locked

\* a Resolve of an entry never disputed was rejected
C9_ResolveRejected ==
    /\ lastTx.type.kind = "Resolve"
    /\ result = "NotDisputed"
    /\ clients[lastTx.client].available > 0

\* ------------------------------------------------------------------ C10
\* C10 as stated: a Resolve or Chargeback naming a transaction_id that is
\* not in the history fails with NotDisputed.
C10_UnknownIdIsNotDisputed ==
    [][((CalledWith("Resolve") \/ CalledWith("Chargeback"))
            /\ lastTx'.id \notin DOMAIN transactions)
        => result' = "NotDisputed"]_vars

\* C10 amended: a Resolve or Chargeback naming a transaction_id that is not
\* in the history fails with TransactionNotFound and changes no account that
\* existed and no history entry.
C10_UnknownIdIsNotFound ==
    [][((CalledWith("Resolve") \/ CalledWith("Chargeback"))
            /\ lastTx'.id \notin DOMAIN transactions)
        => /\ result' = "TransactionNotFound"
           /\ transactions' = transactions
           /\ \A c \in DOMAIN clients : clients'[c] = clients[c]]_vars

\* a Resolve or Chargeback of an id absent from a non-empty history was rejected
C10_Witness ==
    /\ lastTx.type.kind \in {"Resolve", "Chargeback"}
    /\ lastTx.id \notin DOMAIN transactions
    /\ result = "TransactionNotFound"
    /\ transactions # <<>>

\* ------------------------------------------------------------------ C11
\* C11: a Deposit or Withdrawal whose transaction_id is already stored in
\* the history is rejected, and the stored entry (client, kind, amount,
\* is_disputed) and all account balances are left unchanged.
C11_ReusedIdIsRejected ==
    [][((CalledWith("Deposit") \/ CalledWith("Withdrawal"))
            /\ lastTx'.id \in DOMAIN transactions)
        => /\ result' # "Ok"
           /\ transactions'[lastTx'.id] = transactions[lastTx'.id]
           /\ \A c \in DOMAIN clients :
                /\ clients'[c].available = clients[c].available
                /\ clients'[c].held = clients[c].held
                /\ clients'[c].total = clients[c].total]_vars

\* ------------------------------------------------------------------ C12
\* C12: on a locked account every Deposit or Withdrawal with a non-negative
\* amount fails with AccountLocked, changes no balance and stores no history
\* entry, also when the funds would not cover the withdrawal; with the latch
\* of C3 this lasts for the rest of the run.
C12_LockedStep ==
    LET c == lastTx'.client
    IN  ((CalledWith("Deposit") \/ CalledWith("Withdrawal"))
            /\ lastTx'.type.amount >= 0
            /\ c \in DOMAIN clients
            /\ clients[c].locked) =>
                /\ result' = "AccountLocked"
                /\ clients' = clients
                /\ transactions' = transactions
                /\ clients'[c].locked

C12_LockedAccountRejectsMoney == [][C12_LockedStep]_vars

\* a withdrawal larger than the available funds was refused for the lock
C12_Witness ==
    /\ lastTx.type.kind = "Withdrawal"
    /\ result = "AccountLocked"
    /\ lastTx.type.amount > clients[lastTx.client].available
    /\ clients[lastTx.client].locked

\* a deposit was refused for the lock
C12_DepositRefused ==
    /\ lastTx.type.kind = "Deposit"
    /\ result = "AccountLocked"

\* ------------------------------------------------------------------ C13
\* C13: a Deposit or Withdrawal with a negative amount fails with
\* InvalidAmount whatever the state of the account (new, funded or locked),
\* changes no balance and stores no history entry.
C13_NegativeStep ==
    LET c == lastTx'.client
    IN  ((CalledWith("Deposit") \/ CalledWith("Withdrawal"))
            /\ lastTx'.type.amount < 0) =>
                /\ result' = "InvalidAmount"
                /\ transactions' = transactions
                /\ clients'[c].available = AccountBefore(c).available
                /\ clients'[c].held = AccountBefore(c).held
                /\ clients'[c].total = AccountBefore(c).total
                /\ clients'[c].locked = AccountBefore(c).locked
                /\ \A d \in DOMAIN clients : clients'[d] = clients[d]

C13_NegativeAmountIsInvalid == [][C13_NegativeStep]_vars

\* a negative deposit was refused on a locked account
C13_Witness ==
    /\ lastTx.type.kind = "Deposit"
    /\ lastTx.type.amount < 0
    /\ result = "InvalidAmount"
    /\ clients[lastTx.client].locked

\* a negative withdrawal was refused on a funded account
C13_FundedAccount ==
    /\ lastTx.type.kind = "Withdrawal"
    /\ lastTx.type.amount < 0
    /\ result = "InvalidAmount"
    /\ clients[lastTx.client].available > 0

\* ------------------------------------------------------------------ C14
\* C14: the accounts present are exactly those of the clients named by a
\* transaction passed to process_transaction, accepted or rejected: no
\* account before the first call, each call adds the account of its client
\* and no other, a rejected call leaves a new account at zero and unlocked,
\* no other step adds or removes an account, each account is stored under
\* its own client id and the snapshot has one record per account.
C14_Step ==
    LET c == lastTx'.client
    IN  /\ Called =>
            /\ DOMAIN clients' = DOMAIN clients \cup {c}
            /\ (c \notin DOMAIN clients /\ result' # "Ok") =>
                    clients'[c] = [client |-> c, available |-> 0, held |-> 0,
                                   total |-> 0, locked |-> FALSE]
        /\ ~Called => clients' = clients

C14_OneRecordPerAccount ==
    /\ \A c \in DOMAIN clients : clients[c].client = c
    /\ calls = 0 => clients = <<>>
    /\ pc = "done" =>
            /\ {a.client : a \in output[1]} = DOMAIN clients
            /\ Cardinality(output[1]) = Cardinality(DOMAIN clients)

C14_AccountsAreClientsSeen ==
    [][C14_Step /\ C14_OneRecordPerAccount /\ C14_OneRecordPerAccount']_vars

\* the only transaction of a client was rejected and its account is there,
\* empty, next to a funded one
C14_Witness ==
    /\ result = "TransactionNotFound"
    /\ clients[lastTx.client] = [client |-> lastTx.client, available |-> 0,
                                 held |-> 0, total |-> 0, locked |-> FALSE]
    /\ \A t \in DOMAIN transactions : transactions[t].client # lastTx.client
    /\ \E d \in DOMAIN clients : clients[d].available > 0

\* ------------------------------------------------------------------ C15
\* C15: an error returned by process_transaction does not stop ingestion:
\* main stays in its loop after every call, so every record read so far was
\* passed to process_transaction in the order read, and at the end of the
\* input the snapshot of all accounts is written.
C15_CallStep ==
    /\ calls' = calls + 1 => (pc' = "run" /\ processed' = processed + 1)
    /\ (pc = "run" /\ pc' = "done") =>
            /\ output' = <<{clients[c] : c \in DOMAIN clients}>>
            /\ clients' = clients

C15_AllRecordsCalled ==
    /\ pc \in {"run", "done"} => calls = processed
    /\ pc = "failed" => calls = processed - 1
    /\ pc = "done" <=> output # <<>>
    /\ (pc = "run" /\ result \notin {"Ok", "None"}) => ENABLED EndOfInput

C15_ErrorsDoNotStopIngestion ==
    [][C15_CallStep /\ C15_AllRecordsCalled /\ C15_AllRecordsCalled']_vars

\* the input ended after a rejected transaction and the snapshot was written
C15_Witness ==
    /\ pc = "done"
    /\ result = "InsufficientFunds"
    /\ calls >= 2
    /\ output[1] # {}

\* a transaction was applied after an earlier one had been rejected
C15_AppliedAfterRejection ==
    /\ result = "Ok"
    /\ lastTx.type.kind = "Deposit"
    /\ calls > Cardinality(DOMAIN transactions) + 1
    /\ \A t \in DOMAIN transactions : ~transactions[t].is_disputed
    /\ \A c \in DOMAIN clients : ~clients[c].locked

\* ------------------------------------------------------------------ C16
\* C16: for every input sequence and every client c, the account of c
\* (available, held, total, locked) equals the account obtained by
\* processing only the transactions whose client_id is c.
C16_ClientsAreIndependent ==
    \A c \in DOMAIN clients :
        /\ c \in DOMAIN solo[c].clients
        /\ solo[c].clients[c].available = clients[c].available
        /\ solo[c].clients[c].held = clients[c].held
        /\ solo[c].clients[c].total = clients[c].total
        /\ solo[c].clients[c].locked = clients[c].locked

\* no id was stored by the transactions of two different clients
NoIdSharedByClients ==
    \A x \in applied, y \in applied : x.id = y.id => x.client = y.client

\* what holds of the code: the accounts are independent as long as no two
\* clients have stored a transaction under the same id
C16_IndependentUnlessIdShared ==
    NoIdSharedByClients => C16_ClientsAreIndependent

\* ------------------------------------------------------------------ C17
\* C17: once an entry has been charged back, no later Dispute, Resolve or
\* Chargeback changes its is_disputed flag or moves its amount again, and an
\* entry is charged back at most once.
C17_Step ==
    LET t == lastTx'.id
    IN  ((CalledWith("Dispute") \/ CalledWith("Resolve") \/ CalledWith("Chargeback"))
            /\ t \in chargedBack) =>
                /\ transactions'[t] = transactions[t]
                /\ clients'[transactions[t].client] = clients[transactions[t].client]
                /\ ~(lastTx'.type.kind = "Chargeback" /\ result' = "Ok")

C17_ChargebackIsFinal == [][C17_Step]_vars

\* ------------------------------------------------------------------ C18
\* C18: the history contains exactly the Deposit and Withdrawal
\* transactions that were successfully applied (a rejected one is not
\* stored, a Dispute, Resolve or Chargeback is never stored).
C18_HistoryIsApplied ==
    /\ \A t \in DOMAIN transactions :
            /\ transactions[t].id = t
            /\ transactions[t].type.kind \in {"Deposit", "Withdrawal"}
    /\ {[transactions[t] EXCEPT !.is_disputed = FALSE] : t \in DOMAIN transactions}
            = applied

\* what holds of the code: an accepted Deposit or Withdrawal is stored
\* under its id with is_disputed = false, in the place of any entry stored
\* there, and no other call adds, removes or rewrites an entry
C18_Step ==
    LET t == lastTx'.id
    IN  Called =>
            IF lastTx'.type.kind \in {"Deposit", "Withdrawal"} /\ result' = "Ok"
            THEN /\ DOMAIN transactions' = DOMAIN transactions \cup {t}
                 /\ transactions'[t] = [client |-> lastTx'.client, id |-> t,
                                        is_disputed |-> FALSE, type |-> lastTx'.type]
                 /\ \A u \in DOMAIN transactions \ {t} :
                        transactions'[u] = transactions[u]
            ELSE /\ DOMAIN transactions' = DOMAIN transactions
                 /\ \A u \in DOMAIN transactions :
                        [transactions'[u] EXCEPT !.is_disputed = FALSE]
                            = [transactions[u] EXCEPT !.is_disputed = FALSE]

C18_StoredWhenApplied == [][C18_Step]_vars

\* ------------------------------------------------------------------ C19
\* C19: Dispute, Resolve and Chargeback are not blocked by the account
\* lock: whether the account is locked or not, they succeed exactly when the
\* entry exists, is owned by the client and is not disputed (Dispute) or is
\* disputed (Resolve, Chargeback), with the same effects on available, held
\* and total; the outcome is that of the same call with the lock cleared.
C19_Effect(kind, before, s) ==
    CASE kind = "Dispute" ->
            [available |-> before.available - s, held |-> before.held + s,
             total |-> before.total]
      [] kind = "Resolve" ->
            [available |-> before.available + s, held |-> before.held - s,
             total |-> before.total]
      [] kind = "Chargeback" ->
            [available |-> before.available, held |-> before.held - s,
             total |-> before.total - s]

C19_Step ==
    LET c == lastTx'.client
        t == lastTx'.id
        kind == lastTx'.type.kind
        before == AccountBefore(c)
        legal == /\ OwnEntry(transactions, lastTx')
                 /\ transactions[t].is_disputed = (kind # "Dispute")
        unlocked == process_transaction(
                        IF c \in DOMAIN clients
                        THEN [clients EXCEPT ![c].locked = FALSE] ELSE clients,
                        transactions, lastTx')
    IN  (Called /\ kind \in {"Dispute", "Resolve", "Chargeback"}) =>
            /\ (result' = "Ok") <=> legal
            /\ result' = unlocked.result
            /\ clients'[c].available = unlocked.clients[c].available
            /\ clients'[c].held = unlocked.clients[c].held
            /\ clients'[c].total = unlocked.clients[c].total
            /\ legal =>
                LET after == C19_Effect(kind, before, Signed(transactions[t]))
                IN  /\ clients'[c].available = after.available
                    /\ clients'[c].held = after.held
                    /\ clients'[c].total = after.total
            /\ ~legal =>
                    /\ clients'[c].available = before.available
                    /\ clients'[c].held = before.held
                    /\ clients'[c].total = before.total

C19_LockDoesNotBlockDisputes == [][C19_Step]_vars

\* funds held by a Dispute on a locked account were released by a Resolve
C19_Witness ==
    /\ lastTx.type.kind = "Resolve"
    /\ result = "Ok"
    /\ clients[lastTx.client].locked
    /\ transactions[lastTx.id].type.amount # 0
    /\ calls > Len(LockedPrefix)

\* a second entry of a locked account was disputed and charged back
C19_ChargebackWhileLocked ==
    /\ lastTx.type.kind = "Chargeback"
    /\ result = "Ok"
    /\ clients[lastTx.client].locked
    /\ calls > Len(LockedPrefix)

\* ------------------------------------------------------------------ C20
\* C20: in every reachable state every stored history entry is a Deposit or
\* a Withdrawal, so process_transaction never returns InvalidTransactionType
\* and never reaches the unreachable!() arm.
C20_OnlyDepositsAndWithdrawalsStored ==
    /\ \A t \in DOMAIN transactions :
            transactions[t].type.kind \in {"Deposit", "Withdrawal"}
    /\ result \notin {"InvalidTransactionType", "unreachable"}

\* a Chargeback went through the match on the kind of a stored Withdrawal
C20_Witness ==
    /\ lastTx.type.kind = "Chargeback"
    /\ result = "Ok"
    /\ transactions[lastTx.id].type.kind = "Withdrawal"

\* ------------------------------------------------------------------ C21
\* the history entries of client c whose is_disputed flag is set
DisputedOf(c) ==
    {t \in DOMAIN transactions :
        transactions[t].client = c /\ transactions[t].is_disputed}

RECURSIVE SumSigned(_, _)
SumSigned(txs, ids) ==
    IF ids = {}
    THEN 0
    ELSE LET t == CHOOSE x \in ids : TRUE
         IN  Signed(txs[t]) + SumSigned(txs, ids \ {t})

\* no two Deposit/Withdrawal transactions of the input carried the same id
UniqueIds == \A t \in TxIds : idUses[t] <= 1

\* C21: for an input whose Deposit/Withdrawal ids are unique, after every
\* processed transaction each account's held is the sum of the signed amounts
\* (+amount of a Deposit, -amount of a Withdrawal) of the client's history
\* entries whose is_disputed flag is set; held = 0 when none is disputed.
C21_HeldIsDisputedSum ==
    UniqueIds =>
        \A c \in DOMAIN clients :
            /\ clients[c].held = SumSigned(transactions, DisputedOf(c))
            /\ DisputedOf(c) = {} => clients[c].held = 0

\* a deposit and a withdrawal of one client are both under dispute
C21_Witness ==
    /\ UniqueIds
    /\ \E c \in DOMAIN clients :
            /\ Cardinality(DisputedOf(c)) = 2
            /\ \E t \in DisputedOf(c) : transactions[t].type.kind = "Withdrawal"
            /\ \E t \in DisputedOf(c) : transactions[t].type.kind = "Deposit"
            /\ clients[c].held > 0

\* the same sum without the condition on the ids: a reused id breaks it
C21_HeldIsDisputedSumAnyInput ==
    \A c \in DOMAIN clients :
        clients[c].held = SumSigned(transactions, DisputedOf(c))

\* ------------------------------------------------------------------ C22
\* C22: after every processed transaction each account's total is the sum of
\* its applied deposits, minus the sum of its applied withdrawals, minus the
\* sum of the signed amounts of its successful chargebacks; a Dispute, a
\* Resolve and every rejected transaction leave total unchanged.
C22_Step ==
    /\ \A c \in DOMAIN clients' : clients'[c].total = netTotal'[c]
    /\ \A c \in ClientIds \ DOMAIN clients' : netTotal'[c] = 0
    /\ (Called /\ (result' # "Ok" \/ lastTx'.type.kind \in {"Dispute", "Resolve"})) =>
            \A c \in DOMAIN clients' : clients'[c].total = AccountBefore(c).total

C22_TotalIsNetOfApplied == [][C22_Step]_vars

\* the chargeback of a withdrawal raised a total that deposits had built
C22_Witness ==
    /\ lastTx.type.kind = "Chargeback"
    /\ result = "Ok"
    /\ transactions[lastTx.id].type.kind = "Withdrawal"
    /\ transactions[lastTx.id].type.amount > 0
    /\ clients[lastTx.client].total = netTotal[lastTx.client]
    /\ clients[lastTx.client].total > 0

\* a total below zero: the chargeback of a deposit that had been withdrawn
C22_NegativeTotal ==
    \E c \in DOMAIN clients :
        clients[c].total < 0 /\ clients[c].total = netTotal[c]

\* ------------------------------------------------------------------ C23
\* a deposit or withdrawal record whose amount column is empty
LacksAmount(record) ==
    record.transaction_type \in {"deposit", "withdrawal"} /\ record.amount = <<>>

\* the transaction a dispute, resolve or chargeback record stands for
DisputeClassOf(record) ==
    [client |-> record.client, id |-> record.tx, is_disputed |-> FALSE,
     type |-> [kind |-> CASE record.transaction_type = "dispute" -> "Dispute"
                          [] record.transaction_type = "resolve" -> "Resolve"
                          [] record.transaction_type = "chargeback" -> "Chargeback"]]

\* C23: when a record fails to decode (a deposit or withdrawal record with no
\* amount) the run stops at that record with an error: the engine is not
\* called, no later record is processed and no snapshot is written, whatever
\* was applied before; a dispute, resolve or chargeback record is decoded to
\* the same transaction whether or not it carries an amount.
C23_Step ==
    /\ pc = "run"
    /\ pc' = "failed" => output' = <<>>
    /\ processed' = processed + 1 =>
        /\ LacksAmount(lastRecord') =>
                /\ pc' = "failed"
                /\ calls' = calls
                /\ clients' = clients
                /\ transactions' = transactions
        /\ ~LacksAmount(lastRecord') => pc' = "run" /\ calls' = calls + 1
        /\ lastRecord'.transaction_type \in {"dispute", "resolve", "chargeback"} =>
                /\ lastTx' = DisputeClassOf(lastRecord')
                /\ LET r == process_transaction(clients, transactions,
                                                DisputeClassOf(lastRecord'))
                   IN  /\ result' = r.result
                       /\ clients' = r.clients
                       /\ transactions' = r.transactions

C23_DecodeFailureStopsRun == [][C23_Step]_vars

\* the run stopped at a record without amount after a deposit was applied
C23_Witness ==
    /\ pc = "failed"
    /\ LacksAmount(lastRecord)
    /\ output = <<>>
    /\ calls > 0
    /\ \E c \in DOMAIN clients : clients[c].total > 0

\* a dispute record that carried an amount put the entry's own amount on hold
C23_AmountIgnored ==
    /\ lastRecord.transaction_type = "dispute"
    /\ lastRecord.amount = <<MaxAmount>>
    /\ result = "Ok"
    /\ lastTx = DisputeClassOf(lastRecord)
    /\ clients[lastTx.client].held # 0
    /\ clients[lastTx.client].held # MaxAmount

====
